---------------------------- MODULE Spec2Model ----------------------------
(***************************************************************************)
(* amul-watch: one poll cycle of src/amul_watch.py (main and the functions *)
(* it calls), run repeatedly by an external scheduler against one state    *)
(* file.  Strings are sequences of one-character strings; JSON scalars are *)
(* tagged records, so that Python truthiness and dict.get are computed.    *)
(***************************************************************************)
EXTENDS Integers, Sequences, FiniteSets, TLC

(***************************************************************************)
(* Bounds of the model.                                                    *)
(***************************************************************************)
\* Invocations of main() in one behaviour.
MaxRuns == 2
\* Records in one catalogue response.
MaxItems == 2

(***************************************************************************)
(* Program constants.                                                      *)
(***************************************************************************)
RETRIES_INIT == 4
RETRIES_API == 4

\* Largest 'tries' a lone with_retries call is given.
MaxTries == 6

\* Largest number of with_retries calls in a sequence of signed requests.
MaxSigned == 3

\* backoff_sleep: base, cap and largest jitter, in hundredths of a second.
BackoffBase == 100
BackoffCap == 1200
JitterMax == 75

(***************************************************************************)
(* Python values: JSON scalars, str, dict and list; truthiness.            *)
(***************************************************************************)
None == [t |-> "null"]
Bool(b) == [t |-> "bool", b |-> b]
Num(n) == [t |-> "num", n |-> n]
Str(s) == [t |-> "str", s |-> s]
Dict(d) == [t |-> "dict", d |-> d]
List(l) == [t |-> "list", l |-> l]

\* A dict with no key; also the `{}` default of dict.get(key, {}).
EmptyMap == [k \in {} |-> None]

\* bool(v) of Python.
Truthy(v) ==
    CASE v.t = "null" -> FALSE
      [] v.t = "bool" -> v.b
      [] v.t = "num" -> v.n # 0
      [] v.t = "str" -> v.s # <<>>
      [] v.t = "dict" -> DOMAIN v.d # {}
      [] v.t = "list" -> v.l # <<>>

\* Python's `x or y`.
Or(x, y) == IF Truthy(x) THEN x ELSE y

\* d.get(k) on the mapping d of a dict: None when the key is missing.
Get(d, k) == IF k \in DOMAIN d THEN d[k] ELSE None

\* d.setdefault(k, v) on the mapping d of a dict.
SetDefault(d, k, v) == IF k \in DOMAIN d THEN d ELSE d @@ (k :> v)

\* d[k] = v on the mapping d of a dict.
Put(d, k, v) == (k :> v) @@ d

(***************************************************************************)
(* Strings: str.strip() and str.lower().                                   *)
(***************************************************************************)
LowerChar(c) ==
    CASE c = "A" -> "a"
      [] c = "B" -> "b"
      [] OTHER -> c

Lower(s) == [j \in 1..Len(s) |-> LowerChar(s[j])]

RECURSIVE LStrip(_)
LStrip(s) == IF s # <<>> /\ Head(s) = " " THEN LStrip(Tail(s)) ELSE s

RECURSIVE RStrip(_)
RStrip(s) ==
    IF s # <<>> /\ s[Len(s)] = " " THEN RStrip(SubSeq(s, 1, Len(s) - 1)) ELSE s

Strip(s) == RStrip(LStrip(s))

\* a.strip().lower(), the key of an alias (lines 431, 432, 444).
NormKey(a) == Lower(Strip(a))

(***************************************************************************)
(* Configuration and the inputs of a run.                                  *)
(***************************************************************************)
TwoAliases == << <<"a">>, <<"B", " ">> >>

\* The lists TARGET_ALIASES is edited to: empty, or the two aliases.
AliasLists == {<<>>, TwoAliases}

Digits == {"0", "1", "2", "3", "4", "5", "6", "7", "8", "9"}

\* The PINCODE values a run may be started with.
Pincodes ==
    { <<"1", "1", "0", "0", "0", "1">>, <<"1", "1", "0">>,
      <<"1", "1", "0", "0", "0", "x">>, <<>> }

\* PINCODE and PINCODE.isdigit() and len(PINCODE) == 6  (line 392, negated)
PincodeValid(p) ==
    /\ p # <<>>
    /\ \A j \in 1..Len(p) : p[j] \in Digits
    /\ Len(p) = 6

\* A catalogue record as the API returns it.
Rec(al, av, q, op) ==
    [alias |-> Str(al), name |-> Str(<<"L">>), available |-> av,
     inventory_quantity |-> q, our_price |-> op, price |-> Num(99)]

\* The records the catalogue may serve.
Records ==
    { Rec(<<"a">>, Bool(TRUE), Num(7), Num(90)),
      Rec(<<"a">>, Bool(FALSE), Num(0), None),
      Rec(<<"A", " ">>, Bool(TRUE), Num(3), None),
      Rec(<<"b">>, Bool(TRUE), Num(7), Num(90)),
      Rec(<<"b">>, None, None, None) }

\* payload["data"] of a combined request: up to MaxItems records, none twice
\* (two records may still carry the same alias).
Responses ==
    { r \in UNION { [1..n -> Records] : n \in 0..MaxItems } :
        \A j, h \in 1..Len(r) : r[j] = r[h] => j = h }

\* payload["data"] of a request for one alias.
AliasResponses == { r \in Responses : Len(r) <= 1 }

(***************************************************************************)
(* Region resolver: data/pincode_rules.json and alias_from_rules.          *)
(***************************************************************************)
\* read_rules() when the rules file is missing or unreadable.
NoRules == [exact |-> EmptyMap, prefix |-> <<>>, ranges |-> <<>>]

\* A rules file: the prefix dict is kept in its insertion order.
PrefixRules ==
    [exact |-> EmptyMap,
     prefix |-> << <<<<"1", "1">>, Str(<<"d">>)>> >>,
     ranges |-> <<>>]

\* The rules a run may read.
RuleSets == {NoRules, PrefixRules}

\* pincode.startswith(pref)
StartsWith(s, pref) ==
    /\ Len(pref) <= Len(s)
    /\ SubSeq(s, 1, Len(pref)) = pref

\* Code point order of the characters that occur in pincodes.
Ord(c) ==
    CASE c = "0" -> 48 [] c = "1" -> 49 [] c = "2" -> 50 [] c = "3" -> 51
      [] c = "4" -> 52 [] c = "5" -> 53 [] c = "6" -> 54 [] c = "7" -> 55
      [] c = "8" -> 56 [] c = "9" -> 57 [] OTHER -> 0

\* s <= t on Python strings.
RECURSIVE StrLeq(_, _)
StrLeq(s, t) ==
    IF s = <<>> THEN TRUE
    ELSE IF t = <<>> THEN FALSE
    ELSE IF Head(s) = Head(t) THEN StrLeq(Tail(s), Tail(t))
    ELSE Ord(Head(s)) < Ord(Head(t))

\* (v or "").strip(), then `a or None`.
StripOrNone(v) ==
    LET a == Strip(Or(v, Str(<<>>)).s)
    IN IF a # <<>> THEN Str(a) ELSE None

\* The prefix loop: the first longest prefix the pincode starts with (0: none).
BestPrefix(pincode, prefix) ==
    LET M == { j \in 1..Len(prefix) : StartsWith(pincode, prefix[j][1]) }
    IN IF M = {} THEN 0
       ELSE CHOOSE j \in M :
              \A h \in M : \/ Len(prefix[h][1]) < Len(prefix[j][1])
                           \/ (Len(prefix[h][1]) = Len(prefix[j][1]) /\ j <= h)

\* The ranges loop: the first range with truthy start, end and alias that
\* contains the pincode (0: none).
FirstRange(pincode, ranges) ==
    LET M == { j \in 1..Len(ranges) :
                 /\ Truthy(ranges[j].start) /\ Truthy(ranges[j].end)
                 /\ StripOrNone(ranges[j].alias) # None
                 /\ StrLeq(ranges[j].start.s, pincode)
                 /\ StrLeq(pincode, ranges[j].end.s) }
    IN IF M = {} THEN 0 ELSE CHOOSE j \in M : \A h \in M : j <= h

alias_from_rules(pincode, rules) ==
    IF pincode = <<>> THEN None
    ELSE IF pincode \in DOMAIN rules.exact THEN StripOrNone(rules.exact[pincode])
    ELSE LET b == BestPrefix(pincode, rules.prefix)
             r == FirstRange(pincode, rules.ranges)
         IN IF b # 0 /\ StripOrNone(rules.prefix[b][2]) # None
              THEN StripOrNone(rules.prefix[b][2])
            ELSE IF r # 0 THEN StripOrNone(rules.ranges[r].alias)
            ELSE None

(***************************************************************************)
(* The state file and the change detector.                                 *)
(***************************************************************************)
\* STATE_FILE (line 47) and tmp = STATE_FILE.with_suffix(".tmp") (line 332).
STATE_FILE == "state.json"

\* Mutant: the state is written straight into the state file.
TmpFileInPlace == "state.json"

TmpFile == "state.tmp"

\* Contents of a file: none, text that is no JSON, the leading part of a
\* JSON text whose write was cut short, or the JSON text of a value.
Missing == [kind |-> "missing"]
Garbage == [kind |-> "garbage"]
Partial == [kind |-> "partial"]
Json(v) == [kind |-> "json", val |-> v]

\* load_state(): the parsed file, or {} when it is missing or does not parse.
load_state(file) == IF file.kind = "json" THEN file.val ELSE Dict(EmptyMap)

\* by_alias = {(p.get("alias") or "").strip().lower(): p for p in items}
KeyOf(p) == NormKey(Or(Get(p, "alias"), Str(<<>>)).s)

ByAlias(items) ==
    [key \in { KeyOf(items[j]) : j \in 1..Len(items) } |->
        items[CHOOSE j \in 1..Len(items) :
                /\ KeyOf(items[j]) = key
                /\ \A h \in 1..Len(items) : KeyOf(items[h]) = key => h <= j]]

\* Mutant: the previous snapshot is not consulted.
should_alert_ignoring_prev(prev, cur) == Truthy(Get(cur, "available"))

should_alert_availability(prev, cur) ==
    Truthy(Get(cur, "available")) /\ ~Truthy(Get(prev, "available"))

\* Mutant: a forced run always reports the sentinel.
ChangeTextSentinelFirst(prev, cur, forced) ==
    IF forced THEN "FORCE_ALERT" ELSE "Now AVAILABLE"

\* change_text (line 459)
ChangeText(prev, cur, forced) ==
    IF forced /\ ~should_alert_availability(prev, cur)
      THEN "FORCE_ALERT" ELSE "Now AVAILABLE"

\* The alert block of a record (lines 458-472); purl is carried as its alias.
Block(prev, cur, forced) ==
    [title |-> Or(Get(cur, "name"), Get(cur, "alias")),
     change_text |-> ChangeText(prev, cur, forced),
     price |-> Or(Get(cur, "our_price"), Get(cur, "price")),
     inv |-> Get(cur, "inventory_quantity"),
     avail |-> Get(cur, "available"),
     purl |-> Get(cur, "alias")]

\* The history entry of an alert (lines 475-485).
Entry(prev, cur, forced, now) ==
    [ts |-> now,
     alias |-> Get(cur, "alias"),
     name |-> Or(Get(cur, "name"), Get(cur, "alias")),
     changes |-> <<ChangeText(prev, cur, forced)>>,
     snapshot |-> [available |-> Get(cur, "available"),
                   inventory_quantity |-> Get(cur, "inventory_quantity"),
                   price |-> Or(Get(cur, "our_price"), Get(cur, "price"))]]

\* Mutant: the availability is stored under a key nobody reads.
SnapshotWithoutAvailable(cur) ==
    [availability |-> Get(cur, "available"),
     inventory_quantity |-> Get(cur, "inventory_quantity"),
     our_price |-> Get(cur, "our_price"),
     price |-> Get(cur, "price")]

\* The snapshot stored for a record (lines 489-494).
Snapshot(cur) ==
    [available |-> Get(cur, "available"),
     inventory_quantity |-> Get(cur, "inventory_quantity"),
     our_price |-> Get(cur, "our_price"),
     price |-> Get(cur, "price")]

(***************************************************************************)
(* State.                                                                  *)
(***************************************************************************)
VARIABLES
    fs,            \* the files: fs[STATE_FILE] and fs[TmpFile]
    pc,            \* where main() is: "idle" before the first run, "exited" after one
    runs,          \* invocations of main() so far
    exitCode,      \* exit status of the last run (-1 while it runs)
    uncaught,      \* the last run ended in an uncaught exception
    TARGET_ALIASES, \* configuration of the run
    PINCODE,
    FORCE_ALERT,
    rules,         \* rules = read_rules()
    tid_session,   \* sess.tid_session
    alias,         \* alias = alias_from_rules(PINCODE, rules)
    used_fallback,
    attempts,      \* requests of the bootstrap call in progress, by step
    outer,         \* attempt of the with_retries called by main
    inner,         \* attempt of the with_retries called inside it
    k,             \* per-alias fallback: index of the alias being fetched
    bucket,        \* per-alias fallback: records gathered so far
    any_success,
    fetched,       \* fetch_by_aliases returned in this run
    by_alias,
    state,         \* state = load_state(), then updated by the loop
    i,             \* index of the loop over TARGET_ALIASES
    alert_blocks,
    disk0,         \* state.json when the run started
    reads,         \* reads of state.json in this run
    writes,        \* writes of state.tmp or state.json in this run
    emailCalls,    \* calls of send_email in this run
    tgCalls,       \* calls of send_telegram in this run
    em_err,
    tg_err,
    last,          \* the previous run: what it fetched and how it ended
    call           \* a function called on its own: its arguments and progress

cfgVars == <<TARGET_ALIASES, PINCODE, FORCE_ALERT>>
envVars == <<cfgVars, rules>>
bootVars == <<tid_session, alias, used_fallback, attempts, outer, inner>>
fetchVars == <<k, bucket, any_success, fetched, by_alias>>
loopVars == <<state, i, alert_blocks>>
fileVars == <<fs, reads, writes>>
sendVars == <<emailCalls, tgCalls, em_err, tg_err>>
runVars == <<runs, disk0, last, call>>
vars == <<pc, exitCode, uncaught, envVars, bootVars, fetchVars, loopVars,
          fileVars, sendVars, runVars>>

\* The variables of main(), which a function called on its own leaves alone.
mainVars == <<pc, exitCode, uncaught, envVars, bootVars, fetchVars, loopVars,
              fileVars, sendVars, runs, disk0, last>>

\* The state file as it is on disk.
disk == fs[STATE_FILE]

\* The requests of the bootstrap: the two GETs of init_cookies and the two
\* PUTs.
Steps == {"page", "info", "store", "pin"}

NoAttempts == [s \in Steps |-> 0]

\* One more request of a step goes out; the count stops one past the
\* budget of a with_retries.
Attempt(step) ==
    attempts' = [attempts EXCEPT
                    ![step] = IF @ > RETRIES_INIT THEN @ ELSE @ + 1]

\* No function is being called on its own.
NoCall == [fn |-> "none"]

Running == pc \notin {"idle", "exited"}

\* What a run leaves for the next one to compare with: whether it went
\* through to the end (fetch, change detection, save) and what it fetched.
NoRun == [completed |-> FALSE, by_alias |-> EmptyMap]

Summary ==
    IF pc = "exited" /\ fetched /\ exitCode = 0
      THEN [completed |-> TRUE, by_alias |-> by_alias]
      ELSE NoRun

\* Before the first run, with `content` in the state file; c is the function
\* called on its own, if one is.
InitState(content, c) ==
    /\ fs = [f \in {STATE_FILE, TmpFile} |-> IF f = STATE_FILE THEN content ELSE Missing]
    /\ pc = "idle"
    /\ runs = 0
    /\ exitCode = -1
    /\ uncaught = FALSE
    /\ TARGET_ALIASES = TwoAliases
    /\ PINCODE = <<>>
    /\ FORCE_ALERT = FALSE
    /\ rules = NoRules
    /\ tid_session = None
    /\ alias = None
    /\ used_fallback = FALSE
    /\ attempts = NoAttempts
    /\ outer = 1
    /\ inner = 1
    /\ k = 1
    /\ bucket = <<>>
    /\ any_success = FALSE
    /\ fetched = FALSE
    /\ by_alias = EmptyMap
    /\ state = Dict(EmptyMap)
    /\ i = 1
    /\ alert_blocks = <<>>
    /\ disk0 = content
    /\ reads = 0
    /\ writes = 0
    /\ emailCalls = 0
    /\ tgCalls = 0
    /\ em_err = None
    /\ tg_err = None
    /\ last = NoRun
    /\ call = c

\* Before the first run of main().
InitWith(content) == InitState(content, NoCall)

\* The first run finds no state file.
Init == InitWith(Missing)

\* State files the program did not write: no JSON at all, JSON that is not
\* an object, an object without the two keys, and objects whose "tracked"
\* or "history" has the wrong type.
ForeignFile(n) ==
    CASE n = 1 -> Garbage
      [] n = 2 -> Json(List(<<>>))
      [] n = 3 -> Json(None)
      [] n = 4 -> Json(Dict(EmptyMap))
      [] n = 5 -> Json(Dict([tracked |-> List(<<>>), history |-> List(<<>>)]))
      [] n = 6 -> Json(Dict([tracked |-> Dict(EmptyMap), history |-> Dict(EmptyMap)]))
      [] n = 7 -> Json(Dict([tracked |-> None, history |-> None]))

ForeignFiles == 1..7

\* The first run finds no state file or one it did not write.
InitAnyFile ==
    \/ InitWith(Missing)
    \/ \E n \in ForeignFiles : InitWith(ForeignFile(n))

(***************************************************************************)
(* main(): configuration checks, rules and a fresh session (lines 387-398),*)
(* started by the scheduler with the environment of that invocation.       *)
(***************************************************************************)
\* The two checks of lines 388-394.
ConfigOk(t, p) == t # <<>> /\ PincodeValid(p)

\* Mutant: the PINCODE check of lines 392-394 is left out.
StartRunPincodeUnchecked(t, p, f, r) ==
    /\ ~Running
    /\ runs < MaxRuns
    /\ ConfigOk(t, p) \/ r = NoRules
    /\ runs' = runs + 1
    /\ last' = Summary
    /\ disk0' = disk
    /\ TARGET_ALIASES' = t
    /\ PINCODE' = p
    /\ FORCE_ALERT' = f
    /\ rules' = r
    /\ tid_session' = None
    /\ alias' = None
    /\ used_fallback' = FALSE
    /\ attempts' = NoAttempts
    /\ outer' = 1
    /\ inner' = 1
    /\ k' = 1
    /\ bucket' = <<>>
    /\ any_success' = FALSE
    /\ fetched' = FALSE
    /\ by_alias' = EmptyMap
    /\ state' = Dict(EmptyMap)
    /\ i' = 1
    /\ alert_blocks' = <<>>
    /\ reads' = 0
    /\ writes' = 0
    /\ emailCalls' = 0
    /\ tgCalls' = 0
    /\ em_err' = None
    /\ tg_err' = None
    /\ uncaught' = FALSE
    /\ IF t # <<>>
         THEN pc' = "init_page" /\ exitCode' = -1
         ELSE pc' = "exited" /\ exitCode' = 1
    /\ UNCHANGED <<fs, call>>

\* r is what read_rules() returns at line 396, which a run that fails the
\* checks does not reach.
StartRun(t, p, f, r) ==
    /\ ~Running
    /\ runs < MaxRuns
    /\ ConfigOk(t, p) \/ r = NoRules
    /\ runs' = runs + 1
    /\ last' = Summary
    /\ disk0' = disk
    /\ TARGET_ALIASES' = t
    /\ PINCODE' = p
    /\ FORCE_ALERT' = f
    /\ rules' = r
    /\ tid_session' = None
    /\ alias' = None
    /\ used_fallback' = FALSE
    /\ attempts' = NoAttempts
    /\ outer' = 1
    /\ inner' = 1
    /\ k' = 1
    /\ bucket' = <<>>
    /\ any_success' = FALSE
    /\ fetched' = FALSE
    /\ by_alias' = EmptyMap
    /\ state' = Dict(EmptyMap)
    /\ i' = 1
    /\ alert_blocks' = <<>>
    /\ reads' = 0
    /\ writes' = 0
    /\ emailCalls' = 0
    /\ tgCalls' = 0
    /\ em_err' = None
    /\ tg_err' = None
    /\ uncaught' = FALSE
    /\ IF ConfigOk(t, p)
         THEN pc' = "init_page" /\ exitCode' = -1
         ELSE pc' = "exited" /\ exitCode' = 1
    /\ UNCHANGED <<fs, call>>

(***************************************************************************)
(* Session bootstrap (lines 399-421).  Every action is one HTTP request    *)
(* and what the two nested with_retries loops do with its outcome.         *)
(***************************************************************************)
\* Mutant: a failed stage is treated as an empty catalogue.
GiveUpAsEmpty ==
    /\ pc' = "load"
    /\ exitCode' = exitCode

\* sys.exit(0) of lines 419-421 and 426-428.
GiveUp ==
    /\ pc' = "exited"
    /\ exitCode' = 0

\* Mutant: init_cookies is started over for ever.
InitFailedForEver ==
    IF inner < RETRIES_INIT
      THEN /\ inner' = inner + 1
           /\ UNCHANGED <<pc, outer, exitCode>>
    ELSE /\ pc' = "init_page"
         /\ outer' = 1
         /\ inner' = 1
         /\ UNCHANGED exitCode

\* A request of init_cookies failed: retry it, or retry init_cookies from
\* its first request, or give the run up.
InitFailed ==
    IF inner < RETRIES_INIT
      THEN /\ inner' = inner + 1
           /\ UNCHANGED <<pc, outer, exitCode>>
    ELSE IF outer < RETRIES_INIT
      THEN /\ pc' = "init_page"
           /\ outer' = outer + 1
           /\ inner' = 1
           /\ UNCHANGED exitCode
    ELSE /\ GiveUp
         /\ UNCHANGED <<outer, inner>>

\* Lines 404-405 and 416, once init_cookies has returned.
AfterCookies(a) ==
    /\ alias' = a
    /\ pc' = IF Truthy(a) THEN "pref_store" ELSE "pref_pin"
    /\ attempts' = NoAttempts
    /\ outer' = 1
    /\ inner' = 1

\* GET /en/browse/protein (lines 182-186).
InitPage(ok) ==
    /\ pc = "init_page"
    /\ Attempt("page")
    /\ IF ok
         THEN /\ pc' = "init_info"
              /\ inner' = 1
              /\ UNCHANGED <<outer, exitCode>>
         ELSE InitFailed
    /\ UNCHANGED <<uncaught, envVars, tid_session, alias, used_fallback,
                   fetchVars, loopVars, fileVars, sendVars, runVars>>

\* Mutant: a session-info body without tid is taken as a success.
InitInfoAcceptsNoTid(res) ==
    /\ pc = "init_info"
    /\ tid_session' = CASE res = "ok" -> Str(<<"t">>)
                        [] res = "no_tid" -> None
                        [] OTHER -> tid_session
    /\ IF res \in {"ok", "no_tid"}
         THEN /\ AfterCookies(alias_from_rules(PINCODE, rules))
              /\ UNCHANGED exitCode
         ELSE /\ InitFailed
              /\ Attempt("info")
              /\ UNCHANGED alias
    /\ UNCHANGED <<uncaught, envVars, used_fallback,
                   fetchVars, loopVars, fileVars, sendVars, runVars>>

\* GET /user/info.js (lines 187-203): res is "ok", "no_tid" (a body without
\* a tid) or "error" (HTTP error, unexpected body).
InitInfo(res) ==
    /\ pc = "init_info"
    /\ tid_session' = CASE res = "ok" -> Str(<<"t">>)
                        [] res = "no_tid" -> None
                        [] OTHER -> tid_session
    /\ IF res = "ok"
         THEN /\ AfterCookies(alias_from_rules(PINCODE, rules))
              /\ UNCHANGED exitCode
         ELSE /\ InitFailed
              /\ Attempt("info")
              /\ UNCHANGED alias
    /\ UNCHANGED <<uncaught, envVars, used_fallback,
                   fetchVars, loopVars, fileVars, sendVars, runVars>>

\* PUT setPreferences {store} (lines 205-219, called at line 407).
PrefStore(ok) ==
    /\ pc = "pref_store"
    /\ IF ok
         THEN /\ pc' = "probe_combined"
              /\ attempts' = NoAttempts
              /\ outer' = 1
              /\ inner' = 1
              /\ UNCHANGED used_fallback
       ELSE IF inner < RETRIES_INIT
         THEN /\ inner' = inner + 1
              /\ Attempt("store")
              /\ UNCHANGED <<pc, outer, used_fallback>>
       ELSE IF outer < RETRIES_INIT
         THEN /\ outer' = outer + 1
              /\ inner' = 1
              /\ Attempt("store")
              /\ UNCHANGED <<pc, used_fallback>>
       ELSE /\ used_fallback' = TRUE
            /\ pc' = "pref_pin"
            /\ attempts' = NoAttempts
            /\ outer' = 1
            /\ inner' = 1
    /\ UNCHANGED <<exitCode, uncaught, envVars, tid_session, alias,
                   fetchVars, loopVars, fileVars, sendVars, runVars>>

\* main goes on to the fetch of line 423.  Nothing reads rules, alias and
\* used_fallback after line 417, and the retry counters of the bootstrap
\* are gone with the calls that held them.
StartFetch ==
    /\ pc' = "fetch_combined"
    /\ rules' = NoRules
    /\ alias' = None
    /\ used_fallback' = FALSE
    /\ attempts' = NoAttempts
    /\ outer' = 1
    /\ inner' = 1

\* sanity_check_store: the combined request of fetch_by_aliases for
\* [TARGET_ALIASES[0]] (lines 302-310, 278-280).
ProbeCombined(ok) ==
    /\ pc = "probe_combined"
    /\ IF ok
         THEN StartFetch
       ELSE IF inner < RETRIES_API
         THEN /\ inner' = inner + 1
              /\ UNCHANGED <<pc, rules, alias, used_fallback, attempts, outer>>
       ELSE /\ pc' = "probe_alias"
            /\ inner' = 1
            /\ UNCHANGED <<rules, alias, used_fallback, attempts, outer>>
    /\ UNCHANGED <<exitCode, uncaught, cfgVars, tid_session,
                   fetchVars, loopVars, fileVars, sendVars, runVars>>

\* Mutant: a failed sanity check ends the run instead of falling back.
ProbeAliasAborts(ok) ==
    /\ pc = "probe_alias"
    /\ IF ok
         THEN /\ StartFetch
              /\ UNCHANGED exitCode
       ELSE IF inner < RETRIES_API
         THEN /\ inner' = inner + 1
              /\ UNCHANGED <<pc, rules, alias, used_fallback, attempts, outer, exitCode>>
       ELSE /\ GiveUp
            /\ UNCHANGED <<rules, alias, used_fallback, attempts, outer, inner>>
    /\ UNCHANGED <<uncaught, cfgVars, tid_session,
                   fetchVars, loopVars, fileVars, sendVars, runVars>>

\* sanity_check_store: the per-alias request for the probe alias
\* (lines 285-300); when it fails too the store path is given up (409-413).
ProbeAlias(ok) ==
    /\ pc = "probe_alias"
    /\ IF ok
         THEN StartFetch
       ELSE IF inner < RETRIES_API
         THEN /\ inner' = inner + 1
              /\ UNCHANGED <<pc, rules, alias, used_fallback, attempts, outer>>
       ELSE /\ used_fallback' = TRUE
            /\ pc' = "pref_pin"
            /\ outer' = 1
            /\ inner' = 1
            /\ UNCHANGED <<rules, alias, attempts>>
    /\ UNCHANGED <<exitCode, uncaught, cfgVars, tid_session,
                   fetchVars, loopVars, fileVars, sendVars, runVars>>

\* PUT setPreferences {pincode} (lines 221-237, called at line 417).
PrefPin(ok) ==
    /\ pc = "pref_pin"
    /\ IF ok
         THEN /\ StartFetch
              /\ UNCHANGED exitCode
       ELSE IF inner < RETRIES_INIT
         THEN /\ inner' = inner + 1
              /\ Attempt("pin")
              /\ UNCHANGED <<pc, rules, alias, used_fallback, outer, exitCode>>
       ELSE IF outer < RETRIES_INIT
         THEN /\ outer' = outer + 1
              /\ inner' = 1
              /\ Attempt("pin")
              /\ UNCHANGED <<pc, rules, alias, used_fallback, exitCode>>
       ELSE /\ GiveUp
            /\ Attempt("pin")
            /\ UNCHANGED <<rules, alias, used_fallback, outer, inner>>
    /\ UNCHANGED <<uncaught, cfgVars, tid_session,
                   fetchVars, loopVars, fileVars, sendVars, runVars>>

(***************************************************************************)
(* fetch_by_aliases(sess, TARGET_ALIASES) (lines 266-300, 423-432).        *)
(***************************************************************************)
\* fetch_by_aliases has returned its payload: items and by_alias (lines
\* 430-431).  The locals of the functions that returned are gone.
Fetched(items) ==
    /\ fetched' = TRUE
    /\ by_alias' = ByAlias(items)
    /\ pc' = "load"
    /\ rules' = NoRules
    /\ alias' = None
    /\ used_fallback' = FALSE
    /\ outer' = 1
    /\ inner' = 1
    /\ k' = 1
    /\ bucket' = <<>>
    /\ any_success' = FALSE
    /\ UNCHANGED attempts

\* The combined request (lines 278-280).
FetchCombined(ok, resp) ==
    /\ pc = "fetch_combined"
    /\ IF ok
         THEN Fetched(resp)
       ELSE IF inner < RETRIES_API
         THEN /\ inner' = inner + 1
              /\ UNCHANGED <<pc, rules, alias, used_fallback, attempts, outer, k, bucket,
                             any_success, fetched, by_alias>>
       ELSE /\ pc' = "fetch_alias"
            /\ inner' = 1
            /\ k' = 1
            /\ bucket' = <<>>
            /\ any_success' = FALSE
            /\ UNCHANGED <<rules, alias, used_fallback, attempts, outer, fetched, by_alias>>
    /\ UNCHANGED <<exitCode, uncaught, cfgVars, tid_session,
                   loopVars, fileVars, sendVars, runVars>>

\* Mutant: the fetch is given up when the last alias failed, whatever the
\* earlier ones did.
NextAliasLastDecides(b, s) ==
    IF k < Len(TARGET_ALIASES)
      THEN /\ bucket' = b
           /\ any_success' = s
           /\ k' = k + 1
           /\ inner' = 1
           /\ UNCHANGED <<pc, exitCode, rules, alias, used_fallback, attempts, outer,
                          fetched, by_alias>>
    ELSE IF s /\ b # bucket
      THEN /\ Fetched(b)
           /\ UNCHANGED exitCode
    ELSE /\ GiveUp
         /\ bucket' = b
         /\ any_success' = s
         /\ UNCHANGED <<k, inner, rules, alias, used_fallback, attempts, outer,
                        fetched, by_alias>>

\* The loop over the aliases has handled alias k with bucket b and
\* any_success s (lines 285, 293-300).
NextAlias(b, s) ==
    IF k < Len(TARGET_ALIASES)
      THEN /\ bucket' = b
           /\ any_success' = s
           /\ k' = k + 1
           /\ inner' = 1
           /\ UNCHANGED <<pc, exitCode, rules, alias, used_fallback, attempts, outer,
                          fetched, by_alias>>
    ELSE IF s
      THEN /\ Fetched(b)
           /\ UNCHANGED exitCode
    ELSE /\ GiveUp
         /\ bucket' = b
         /\ any_success' = s
         /\ UNCHANGED <<k, inner, rules, alias, used_fallback, attempts, outer,
                        fetched, by_alias>>

\* One request for alias k of the per-alias fallback (lines 286-292).
FetchAlias(ok, resp) ==
    /\ pc = "fetch_alias"
    /\ IF ok
         THEN NextAlias(bucket \o resp, TRUE)
       ELSE IF inner < RETRIES_API
         THEN /\ inner' = inner + 1
              /\ UNCHANGED <<pc, exitCode, rules, alias, used_fallback, attempts, outer, k,
                             bucket, any_success, fetched, by_alias>>
       ELSE NextAlias(bucket, any_success)
    /\ UNCHANGED <<uncaught, cfgVars, tid_session,
                   loopVars, fileVars, sendVars, runVars>>

(***************************************************************************)
(* Change detection over the tracked aliases (lines 436-494).              *)
(***************************************************************************)
\* An exception nothing catches: traceback, exit status 1.
Uncaught ==
    /\ pc' = "exited"
    /\ exitCode' = 1
    /\ uncaught' = TRUE

\* state = load_state() and the two setdefault calls (lines 436-438).
LoadState ==
    /\ pc = "load"
    /\ reads' = reads + 1
    /\ LET st == load_state(disk)
       IN IF st.t # "dict"
            THEN /\ Uncaught
                 /\ UNCHANGED <<state, i>>
            ELSE /\ state' = Dict(SetDefault(SetDefault(st.d, "tracked", Dict(EmptyMap)),
                                             "history", List(<<>>)))
                 /\ i' = 1
                 /\ pc' = "loop"
                 /\ UNCHANGED <<exitCode, uncaught>>
    /\ UNCHANGED <<envVars, bootVars, fetchVars, alert_blocks,
                   fs, writes, sendVars, runVars>>

\* The loop has finished alias i (line 443).
NextIteration ==
    /\ i' = i + 1
    /\ pc' = IF i < Len(TARGET_ALIASES) THEN "loop" ELSE "save"

\* Mutant: a missing alias ends the run.
SkipAliasAndExit ==
    /\ pc' = "exited"
    /\ exitCode' = 0
    /\ UNCHANGED <<state, i, alert_blocks, uncaught>>

\* cur is None: a warning, then `continue` (lines 448-452).
SkipAlias ==
    /\ NextIteration
    /\ UNCHANGED <<state, alert_blocks, exitCode, uncaught>>

\* Mutant: the history keeps only the latest entry.
HistoryLatestOnly(history, entry) == <<entry>>

\* state["history"].append(entry) (lines 475-485).
HistoryAfter(history, entry) == Append(history, entry)

\* Mutant: the snapshot of an alerting item is held back, so that the next
\* run sees the change again.
TrackedAfterUnlessAlert(tracked, key, cur, do_alert) ==
    IF do_alert THEN tracked ELSE Put(tracked, key, Snapshot(cur))

\* Mutant: the snapshot is stored only when an alert fired.
TrackedAfterAlertOnly(tracked, key, cur, do_alert) ==
    IF do_alert THEN Put(tracked, key, Snapshot(cur)) ELSE tracked

\* state["tracked"][key] = {...} (lines 489-494), after both branches of
\* `if do_alert`.
TrackedAfter(tracked, key, cur, do_alert) == Put(tracked, key, Snapshot(cur))

\* One iteration of the loop over TARGET_ALIASES (lines 443-494).
ProcessAlias ==
    /\ pc = "loop"
    /\ LET key == NormKey(TARGET_ALIASES[i])
           tracked == state.d["tracked"]
           history == state.d["history"]
       IN IF tracked.t # "dict"
            THEN /\ Uncaught
                 /\ UNCHANGED <<state, i, alert_blocks>>
          ELSE IF key \notin DOMAIN by_alias
            THEN SkipAlias
          ELSE LET cur == by_alias[key]
                   prev == IF key \in DOMAIN tracked.d THEN tracked.d[key] ELSE EmptyMap
                   do_alert == should_alert_availability(prev, cur) \/ FORCE_ALERT
                   stored == Dict(TrackedAfter(tracked.d, key, cur, do_alert))
               IN IF ~do_alert
                    THEN /\ state' = Dict(Put(state.d, "tracked", stored))
                         /\ NextIteration
                         /\ UNCHANGED <<alert_blocks, exitCode, uncaught>>
                  ELSE IF history.t # "list"
                    THEN /\ alert_blocks' = Append(alert_blocks, Block(prev, cur, FORCE_ALERT))
                         /\ Uncaught
                         /\ UNCHANGED <<state, i>>
                  ELSE /\ alert_blocks' = Append(alert_blocks, Block(prev, cur, FORCE_ALERT))
                       /\ state' =
                            Dict(Put(Put(state.d, "history",
                                         List(HistoryAfter(history.l,
                                                Entry(prev, cur, FORCE_ALERT, runs)))),
                                     "tracked", stored))
                       /\ NextIteration
                       /\ UNCHANGED <<exitCode, uncaught>>
    /\ UNCHANGED <<envVars, bootVars, fetchVars, fileVars, sendVars, runVars>>

(***************************************************************************)
(* save_state(state) (lines 329-336, called at line 496).                  *)
(***************************************************************************)
\* After save_state: the senders when there are alert blocks (line 506),
\* else sys.exit(0) (line 515).
AfterSave ==
    IF alert_blocks # <<>>
      THEN /\ pc' = "email"
           /\ UNCHANGED exitCode
      ELSE /\ pc' = "exited"
           /\ exitCode' = 0

\* tmp.write_text(json.dumps(state)) (line 333).
SaveWrite ==
    /\ pc = "save"
    /\ fs' = [fs EXCEPT ![TmpFile] = Json(state)]
    /\ writes' = writes + 1
    /\ pc' = "replace"
    /\ UNCHANGED <<exitCode, uncaught, envVars, bootVars, fetchVars, loopVars,
                   reads, sendVars, runVars>>

\* os.replace(src, dst): dst gets the content of src in one step and src is
\* gone.
Renamed(files, src, dst) ==
    IF src = dst THEN files
    ELSE [files EXCEPT ![dst] = files[src], ![src] = Missing]

\* tmp.replace(STATE_FILE) (line 334).
SaveReplace ==
    /\ pc = "replace"
    /\ fs' = Renamed(fs, TmpFile, STATE_FILE)
    /\ writes' = writes + 1
    /\ AfterSave
    /\ UNCHANGED <<uncaught, envVars, bootVars, fetchVars, loopVars,
                   reads, sendVars, runVars>>

(***************************************************************************)
(* Notification (lines 506-515).  A sender returns None when the message   *)
(* was sent and an error text when it was skipped or failed.               *)
(***************************************************************************)
SendResults == {"sent", "skipped", "error"}

ErrorOf(res) == IF res = "sent" THEN None ELSE Str(<<"e">>)

\* Mutant: an email error ends the run before telegram is tried.
SendEmailRaising(res) ==
    /\ pc = "email"
    /\ emailCalls' = emailCalls + 1
    /\ em_err' = ErrorOf(res)
    /\ IF res = "error"
         THEN pc' = "exited" /\ exitCode' = 1 /\ uncaught' = TRUE
         ELSE pc' = "telegram" /\ UNCHANGED <<exitCode, uncaught>>
    /\ UNCHANGED <<envVars, bootVars, fetchVars, loopVars,
                   fileVars, tgCalls, tg_err, runVars>>

\* em_err = send_email(subject, text_plain) (lines 353-367, 510).
SendEmail(res) ==
    /\ pc = "email"
    /\ emailCalls' = emailCalls + 1
    /\ em_err' = ErrorOf(res)
    /\ pc' = "telegram"
    /\ UNCHANGED <<exitCode, uncaught, envVars, bootVars, fetchVars, loopVars,
                   fileVars, tgCalls, tg_err, runVars>>

\* tg_err = send_telegram(text_html_joined) (lines 369-381, 511), then the
\* two log lines and sys.exit(0) (lines 512-515).
SendTelegram(res) ==
    /\ pc = "telegram"
    /\ tgCalls' = tgCalls + 1
    /\ tg_err' = ErrorOf(res)
    /\ pc' = "exited"
    /\ exitCode' = 0
    /\ UNCHANGED <<uncaught, envVars, bootVars, fetchVars, loopVars,
                   fileVars, emailCalls, em_err, runVars>>

(***************************************************************************)
(* Specification.                                                          *)
(***************************************************************************)
Next ==
    \/ \E t \in AliasLists, p \in Pincodes, f \in BOOLEAN, r \in RuleSets :
          StartRun(t, p, f, r)
    \/ \E ok \in BOOLEAN : InitPage(ok)
    \/ \E res \in {"ok", "no_tid", "error"} : InitInfo(res)
    \/ \E ok \in BOOLEAN : PrefStore(ok)
    \/ \E ok \in BOOLEAN : ProbeCombined(ok)
    \/ \E ok \in BOOLEAN : ProbeAlias(ok)
    \/ \E ok \in BOOLEAN : PrefPin(ok)
    \/ \E resp \in Responses : FetchCombined(TRUE, resp)
    \/ FetchCombined(FALSE, <<>>)
    \/ \E resp \in AliasResponses : FetchAlias(TRUE, resp)
    \/ FetchAlias(FALSE, <<>>)
    \/ LoadState
    \/ ProcessAlias
    \/ SaveWrite
    \/ SaveReplace
    \/ \E res \in SendResults : SendEmail(res)
    \/ \E res \in SendResults : SendTelegram(res)

Spec == Init /\ [][Next]_vars

\* The results of a sender that did not deliver: its configuration is
\* missing (lines 354-355, 370-371) or the sending failed.
Undelivered == SendResults \ {"sent"}

\* The runs in which no channel ever delivers.
NextSendersDown ==
    \/ \E t \in AliasLists, p \in Pincodes, f \in BOOLEAN, r \in RuleSets :
          StartRun(t, p, f, r)
    \/ \E ok \in BOOLEAN : InitPage(ok)
    \/ \E res \in {"ok", "no_tid", "error"} : InitInfo(res)
    \/ \E ok \in BOOLEAN : PrefStore(ok)
    \/ \E ok \in BOOLEAN : ProbeCombined(ok)
    \/ \E ok \in BOOLEAN : ProbeAlias(ok)
    \/ \E ok \in BOOLEAN : PrefPin(ok)
    \/ \E resp \in Responses : FetchCombined(TRUE, resp)
    \/ FetchCombined(FALSE, <<>>)
    \/ \E resp \in AliasResponses : FetchAlias(TRUE, resp)
    \/ FetchAlias(FALSE, <<>>)
    \/ LoadState
    \/ ProcessAlias
    \/ SaveWrite
    \/ SaveReplace
    \/ \E res \in Undelivered : SendEmail(res)
    \/ \E res \in Undelivered : SendTelegram(res)

SpecSendersDown == Init /\ [][NextSendersDown]_vars

\* The runs of Spec, started on any state file.
SpecAnyFile == InitAnyFile /\ [][Next]_vars

(***************************************************************************)
(* The process is killed (no handler runs, no exit status of its own); its  *)
(* session and the retry loops it was in go with it.                       *)
(***************************************************************************)
Killed == 128 + 9

Kill ==
    /\ Running
    /\ pc' = "exited"
    /\ exitCode' = Killed
    /\ rules' = NoRules
    /\ tid_session' = None
    /\ alias' = None
    /\ used_fallback' = FALSE
    /\ attempts' = NoAttempts
    /\ outer' = 1
    /\ inner' = 1
    /\ k' = 1
    /\ bucket' = <<>>
    /\ any_success' = FALSE
    /\ UNCHANGED <<uncaught, cfgVars, fetched, by_alias, loopVars,
                   fileVars, sendVars, runVars>>

\* Killed inside tmp.write_text (line 333): the file is there, cut short.
KillInWrite ==
    /\ pc = "save"
    /\ fs' = [fs EXCEPT ![TmpFile] = Partial]
    /\ writes' = writes + 1
    /\ pc' = "exited"
    /\ exitCode' = Killed
    /\ UNCHANGED <<uncaught, envVars, bootVars, fetchVars, loopVars,
                   reads, sendVars, runVars>>

NextCrash == Next \/ Kill \/ KillInWrite

\* The runs of Spec, any of which may be killed at any point.
SpecCrash == Init /\ [][NextCrash]_vars

(***************************************************************************)
(* The state file cannot be written: save_state logs a warning and returns *)
(* (lines 335-336).                                                        *)
(***************************************************************************)
\* ensure_state_dir or tmp.write_text raises; what was written of the file
\* stays.
SaveWriteFails(written) ==
    /\ pc = "save"
    /\ fs' = IF written THEN [fs EXCEPT ![TmpFile] = Partial] ELSE fs
    /\ writes' = writes + 1
    /\ AfterSave
    /\ UNCHANGED <<uncaught, envVars, bootVars, fetchVars, loopVars,
                   reads, sendVars, runVars>>

\* tmp.replace(STATE_FILE) raises.
SaveReplaceFails ==
    /\ pc = "replace"
    /\ writes' = writes + 1
    /\ AfterSave
    /\ UNCHANGED <<uncaught, envVars, bootVars, fetchVars, loopVars,
                   fs, reads, sendVars, runVars>>

NextIO == Next \/ (\E written \in BOOLEAN : SaveWriteFails(written)) \/ SaveReplaceFails

\* The runs of Spec on a file system whose writes may fail.
SpecIO == Init /\ [][NextIO]_vars

\* The same, started on any state file.
SpecAnyFileIO == InitAnyFile /\ [][NextIO]_vars

(***************************************************************************)
(* The change detector called on its own, with the alert policy as a       *)
(* parameter.  The full-diff policy is the one of the repository's other   *)
(* script variants, taken from the specification:                          *)
(*   "compares availability (boolean flip in either direction), inventory  *)
(*    quantity (emits signed delta description), and price (emits          *)
(*    drop/increase description), independently; alerts if any change is   *)
(*    detected", and for a first observation "emits change notices for     *)
(*    every non-absent current field (treated as 'set to X')".             *)
(***************************************************************************)
Modes == {"availability", "full_diff"}

DiffFields == <<"available", "inventory_quantity", "price">>

\* The value of a compared field: price is `our_price or price` (line 462).
FieldOf(p, f) ==
    IF f = "price" THEN Or(Get(p, "our_price"), Get(p, "price")) ELSE Get(p, f)

\* Mutant: only a flip to available counts for availability.
FieldChangeUpOnly(f, pv, cv) ==
    IF pv = cv \/ (f = "available" /\ ~Truthy(cv)) THEN <<>>
    ELSE << [field |-> f, kind |-> "changed", to |-> cv] >>

\* The notice for one field: none when it did not change.
FieldChange(f, pv, cv) ==
    IF pv = cv THEN <<>>
    ELSE IF pv = None THEN << [field |-> f, kind |-> "set", to |-> cv] >>
    ELSE IF cv = None THEN << [field |-> f, kind |-> "cleared", to |-> cv] >>
    ELSE IF f = "available" THEN << [field |-> f, kind |-> "flip", to |-> cv] >>
    ELSE IF f = "inventory_quantity"
      THEN << [field |-> f, kind |-> "delta", to |-> Num(cv.n - pv.n)] >>
    ELSE << [field |-> f,
             kind |-> IF cv.n < pv.n THEN "drop" ELSE "increase", to |-> cv] >>

\* The change list of the full-diff policy.
diff_changes(prev, cur) ==
    FieldChange("available", FieldOf(prev, "available"), FieldOf(cur, "available"))
    \o FieldChange("inventory_quantity", FieldOf(prev, "inventory_quantity"),
                   FieldOf(cur, "inventory_quantity"))
    \o FieldChange("price", FieldOf(prev, "price"), FieldOf(cur, "price"))

\* The policy chosen by the mode.
should_alert(mode, prev, cur) ==
    IF mode = "full_diff" THEN diff_changes(prev, cur) # <<>>
    ELSE should_alert_availability(prev, cur)

DetectCall(mode, prev, cur) ==
    [fn |-> "detect", mode |-> mode, prev |-> prev, cur |-> cur,
     done |-> FALSE, alert |-> FALSE, changes |-> <<>>]

\* The records the detector is tried on: those of the catalogue, one that
\* went out of stock at a higher price and one that only lost its quantity.
DetectRecords ==
    Records \cup { Rec(<<"a">>, Bool(FALSE), Num(0), Num(99)),
                   Rec(<<"a">>, Bool(TRUE), None, Num(90)) }

\* The detector is given a mode, the stored snapshot of a key (none, or the
\* one an earlier record left) and the current record.
InitDetect ==
    \E mode \in Modes, cur \in DetectRecords :
        \/ InitState(Missing, DetectCall(mode, EmptyMap, cur))
        \/ \E r \in DetectRecords :
              InitState(Missing, DetectCall(mode, Snapshot(r), cur))

Detect ==
    /\ call.fn = "detect"
    /\ ~call.done
    /\ call' = [call EXCEPT
                  !.done = TRUE,
                  !.alert = should_alert(call.mode, call.prev, call.cur),
                  !.changes = IF call.mode = "full_diff"
                                THEN diff_changes(call.prev, call.cur) ELSE <<>>]
    /\ UNCHANGED mainVars

SpecDetect == InitDetect /\ [][Detect]_vars

(***************************************************************************)
(* alias_from_rules called on its own (lines 139-162).                     *)
(***************************************************************************)
P110001 == <<"1", "1", "0", "0", "0", "1">>
P110099 == <<"1", "1", "0", "0", "9", "9">>
P120000 == <<"1", "2", "0", "0", "0", "0">>

ResolvePincodes == <<P110001, P110099, P120000, <<>> >>

\* rules["exact"]: absent, a region, a blank region, null.
ExactRules(n) ==
    CASE n = 1 -> EmptyMap
      [] n = 2 -> (P110001 :> Str(<<"A">>))
      [] n = 3 -> (P110001 :> Str(<<" ">>))
      [] n = 4 -> (P110001 :> None)

\* rules["prefix"] in the order of the file: absent, shorter prefix first,
\* longer prefix first, a blank region on the longer prefix.
PrefixLists(n) ==
    CASE n = 1 -> <<>>
      [] n = 2 -> << <<<<"1", "1">>, Str(<<"B">>)>>, <<<<"1", "1", "0">>, Str(<<"C">>)>> >>
      [] n = 3 -> << <<<<"1", "1", "0">>, Str(<<"C">>)>>, <<<<"1", "1">>, Str(<<"B">>)>> >>
      [] n = 4 -> << <<<<"1", "1">>, Str(<<"B">>)>>, <<<<"1", "1", "0">>, Str(<<" ">>)>> >>

Range(s, e, a) == [start |-> Str(s), end |-> Str(e), alias |-> a]

\* rules["ranges"]: absent, two overlapping ranges, a range without region
\* before one with.
RangeLists(n) ==
    CASE n = 1 -> <<>>
      [] n = 2 -> << Range(<<"1", "1", "0", "0", "5", "0">>, <<"1", "1", "9", "9", "9", "9">>,
                           Str(<<"R">>)),
                     Range(<<"1", "0", "0", "0", "0", "0">>, <<"1", "9", "9", "9", "9", "9">>,
                           Str(<<"S">>)) >>
      [] n = 3 -> << Range(P110001, P110099, None),
                     Range(P110001, P110001, Str(<<"T", " ">>)) >>

ResolveCall(pincode, rs) ==
    [fn |-> "alias_from_rules", pincode |-> pincode, rules |-> rs,
     done |-> FALSE, result |-> None]

InitResolve ==
    \E j \in 1..Len(ResolvePincodes), x \in 1..4, y \in 1..4, z \in 1..3 :
        InitState(Missing,
                  ResolveCall(ResolvePincodes[j],
                              [exact |-> ExactRules(x), prefix |-> PrefixLists(y),
                               ranges |-> RangeLists(z)]))

Resolve ==
    /\ call.fn = "alias_from_rules"
    /\ ~call.done
    /\ call' = [call EXCEPT !.done = TRUE,
                            !.result = alias_from_rules(call.pincode, call.rules)]
    /\ UNCHANGED mainVars

SpecResolve == InitResolve /\ [][Resolve]_vars

(***************************************************************************)
(* with_retries called on its own (lines 109-123).  fn is any callable: it *)
(* returns a value or raises one of two errors.  'outcomes' and 'slept'    *)
(* record what the call did: the outcome of every call of fn, and the      *)
(* delay of every backoff_sleep.                                           *)
(***************************************************************************)
FnErrors == {"timeout", "http500"}
Jitters == {0, JitterMax}

Least(a, b) == IF a <= b THEN a ELSE b

\* delay = min(cap, base * 2 ** (attempt - 1)) + random.uniform(0, 0.75)
backoff_sleep(attempt, jitter) ==
    Least(BackoffCap, BackoffBase * 2 ^ (attempt - 1)) + jitter

with_retries(tries) ==
    [fn |-> "with_retries", tries |-> tries, attempt |-> 1, at |-> "try",
     last_err |-> None, result |-> None, outcomes |-> <<>>, slept |-> <<>>]

InitRetry == \E tries \in 1..MaxTries : InitState(Missing, with_retries(tries))

\* return fn()
TryReturns ==
    /\ call.fn = "with_retries"
    /\ call.at = "try"
    /\ call' = [call EXCEPT !.at = "returned",
                            !.result = Str(<<"v">>),
                            !.outcomes = Append(@, [ok |-> TRUE, v |-> Str(<<"v">>)])]
    /\ UNCHANGED mainVars

TryRaisesSleepsAfterLast(e) ==
    /\ call.fn = "with_retries"
    /\ call.at = "try"
    /\ call' = [call EXCEPT !.at = IF call.attempt <= call.tries THEN "backoff"
                                   ELSE "raised",
                            !.last_err = e,
                            !.outcomes = Append(@, [ok |-> FALSE, v |-> e])]
    /\ UNCHANGED mainVars

\* except Exception as e: last_err = e; after the last attempt the loop ends
\* and last_err is raised.
TryRaises(e) ==
    /\ call.fn = "with_retries"
    /\ call.at = "try"
    /\ call' = [call EXCEPT !.at = IF call.attempt < call.tries THEN "backoff"
                                   ELSE "raised",
                            !.last_err = e,
                            !.outcomes = Append(@, [ok |-> FALSE, v |-> e])]
    /\ UNCHANGED mainVars

\* if attempt < tries: backoff_sleep(attempt), then the next attempt.
BackoffSleep(jitter) ==
    /\ call.fn = "with_retries"
    /\ call.at = "backoff"
    /\ call' = [call EXCEPT !.at = "try",
                            !.attempt = @ + 1,
                            !.slept = Append(@, backoff_sleep(call.attempt, jitter))]
    /\ UNCHANGED mainVars

NextRetry ==
    \/ TryReturns
    \/ \E e \in FnErrors : TryRaises(e)
    \/ \E jitter \in Jitters : BackoffSleep(jitter)

SpecRetry == InitRetry /\ [][NextRetry]_vars

(***************************************************************************)
(* The signed requests (lines 174-179, 207-218, 225-236, 270-288): each is *)
(* a with_retries call whose callable builds its headers, tid included,    *)
(* and sends the request.  Time is in milliseconds off an arbitrary start; *)
(* a request takes 0 or 1 ms here, a backoff sleep at least one second.    *)
(* 'calcs' counts the calls of _calc_tid_header, 'sends' the requests      *)
(* sent, 'issued' is the time of the last request, 'tid' its header and    *)
(* 'prev_tid' the header of the request before it.                         *)
(***************************************************************************)
SignedLabels == {"pref:store", "pref:pincode", "api:combined", "api:alias"}

TriesOf(label) ==
    IF label \in {"pref:store", "pref:pincode"} THEN RETRIES_INIT ELSE RETRIES_API

\* random.randint(0, 999), its two ends.
Rands == {0, 999}

\* f"{ts_ms}:{rand}:{digest}" with digest the SHA-256 of
\* f"{STORE_ID}:{ts_ms}:{rand}:{seed}", kept as the text it hashes.
calc_tid_header(ts_ms, rand, seed) ==
    [ts |-> ts_ms, rand |-> rand, digest |-> <<"STORE_ID", ts_ms, rand, seed>>]

SignedCall(label) ==
    [fn |-> "signed", label |-> label, tries |-> TriesOf(label), attempt |-> 1,
     at |-> "try", n |-> 1, now |-> 0, seed |-> <<"t">>,
     calcs |-> 0, sends |-> 0, issued |-> 0, tid |-> None, prev_tid |-> None]

InitSigned == \E label \in SignedLabels : InitState(Missing, SignedCall(label))

\* Mutant: the tid header is computed for the first attempt and kept for
\* the retries.
SignedRequestCached(ok, rand, dt) ==
    /\ call.fn = "signed"
    /\ call.at = "try"
    /\ call' = [call EXCEPT
                   !.tid = IF call.attempt = 1
                             THEN calc_tid_header(call.now, rand, call.seed)
                             ELSE call.tid,
                   !.prev_tid = call.tid,
                   !.calcs = IF call.attempt = 1 THEN @ + 1 ELSE @,
                   !.sends = @ + 1,
                   !.issued = call.now,
                   !.now = @ + dt,
                   !.at = IF ~ok /\ call.attempt < call.tries THEN "backoff" ELSE "done"]
    /\ UNCHANGED mainVars

\* One call of _setpref or _do: h["tid"] = self._calc_tid_header(), then
\* the PUT or GET, which succeeds or raises.
SignedRequest(ok, rand, dt) ==
    /\ call.fn = "signed"
    /\ call.at = "try"
    /\ call' = [call EXCEPT
                   !.tid = calc_tid_header(call.now, rand, call.seed),
                   !.prev_tid = call.tid,
                   !.calcs = @ + 1,
                   !.sends = @ + 1,
                   !.issued = call.now,
                   !.now = @ + dt,
                   !.at = IF ~ok /\ call.attempt < call.tries THEN "backoff" ELSE "done"]
    /\ UNCHANGED mainVars

\* backoff_sleep(attempt) between two attempts, in whole seconds.
SignedBackoff ==
    /\ call.fn = "signed"
    /\ call.at = "backoff"
    /\ call' = [call EXCEPT
                   !.now = @ + BackoffBase * 10,
                   !.attempt = @ + 1,
                   !.at = "try"]
    /\ UNCHANGED mainVars

\* The next with_retries call of the run: the PUT by pincode after the PUT
\* by store, the probe, the combined fetch, the request of one alias.
NextSigned(label) ==
    /\ call.fn = "signed"
    /\ call.at = "done"
    /\ call.n < MaxSigned
    /\ call' = [call EXCEPT
                   !.label = label,
                   !.tries = TriesOf(label),
                   !.attempt = 1,
                   !.at = "try",
                   !.n = @ + 1]
    /\ UNCHANGED mainVars

NextSignedStep ==
    \/ \E ok \in BOOLEAN, rand \in Rands, dt \in {0, 1} : SignedRequest(ok, rand, dt)
    \/ SignedBackoff
    \/ \E label \in SignedLabels : NextSigned(label)

SpecSigned == InitSigned /\ [][NextSignedStep]_vars

(***************************************************************************)
(* What a run leaves behind, as the claims speak of it.                    *)
(***************************************************************************)
\* The normalised tracked keys.
TrackedKeys == { NormKey(TARGET_ALIASES[j]) : j \in 1..Len(TARGET_ALIASES) }

\* The snapshots a state file holds, by key.
StoredTracked(file) ==
    LET st == load_state(file)
    IN IF st.t = "dict" /\ "tracked" \in DOMAIN st.d /\ st.d["tracked"].t = "dict"
         THEN st.d["tracked"].d ELSE EmptyMap

\* The history a state file holds.
StoredHistory(file) ==
    LET st == load_state(file)
    IN IF st.t = "dict" /\ "history" \in DOMAIN st.d /\ st.d["history"].t = "list"
         THEN st.d["history"].l ELSE <<>>

IsPrefix(s, t) == Len(s) <= Len(t) /\ SubSeq(t, 1, Len(s)) = s

\* The history entries the state file gained in this run.
NewEntries ==
    SubSeq(StoredHistory(disk), Len(StoredHistory(disk0)) + 1, Len(StoredHistory(disk)))

\* The alert blocks and the new history entries of a key.
BlocksOf(key) ==
    { j \in 1..Len(alert_blocks) : NormKey(alert_blocks[j].purl.s) = key }

EntriesOf(key) ==
    { j \in 1..Len(NewEntries) : NormKey(NewEntries[j].alias.s) = key }

\* The key is in the fetch result of this run.
Present(key) == fetched /\ key \in DOMAIN by_alias

\* The snapshot the state file held for the key when the run started says
\* available (an absent snapshot does not).
WasAvailable(key) ==
    /\ key \in DOMAIN StoredTracked(disk0)
    /\ Truthy(Get(StoredTracked(disk0)[key], "available"))

\* The run is over, and it went through fetch, change detection and save.
Completed == pc = "exited" /\ fetched /\ exitCode = 0

\* The run is over without a fetch result: the bootstrap or the fetch failed.
StageFailed == pc = "exited" /\ runs > 0 /\ ~fetched /\ exitCode = 0

(***************************************************************************)
(* C1  Without FORCE_ALERT, a run produces an alert block and a history    *)
(* entry for a tracked key exactly when the key is in its fetch result     *)
(* with truthy `available` and the snapshot stored before the run is       *)
(* absent or has falsy `available`.                                        *)
(***************************************************************************)
C1_AlertIffBecameAvailable ==
    (pc = "exited" /\ runs > 0 /\ ~FORCE_ALERT) =>
        \A key \in TrackedKeys :
            LET due == /\ Present(key)
                       /\ Truthy(Get(by_alias[key], "available"))
                       /\ ~WasAvailable(key)
            IN /\ (BlocksOf(key) # {}) <=> due
               /\ (EntriesOf(key) # {}) <=> due

\* A run alerted for a key whose stored snapshot said unavailable.
C1_Witness ==
    /\ pc = "exited" /\ ~FORCE_ALERT
    /\ \E key \in TrackedKeys :
          /\ BlocksOf(key) # {}
          /\ key \in DOMAIN StoredTracked(disk0)
          /\ ~WasAvailable(key)

(***************************************************************************)
(* C2  When the bootstrap fails or fetch_by_aliases raises, the run ends   *)
(* without reading or writing the state file, without a history entry and  *)
(* without calling a sender; the state file is what it was before.         *)
(***************************************************************************)
C2_StageFailureTouchesNothing ==
    StageFailed =>
        /\ reads = 0 /\ writes = 0
        /\ emailCalls = 0 /\ tgCalls = 0
        /\ alert_blocks = <<>>
        /\ fs[STATE_FILE] = disk0
        /\ StoredTracked(disk) = StoredTracked(disk0)
        /\ StoredHistory(disk) = StoredHistory(disk0)

\* A run failed a stage while the state file held a history.
C2_Witness == StageFailed /\ StoredHistory(disk0) # <<>>

OneAlertPerPresentKey ==
    \A key \in TrackedKeys :
        Present(key) => Cardinality(BlocksOf(key)) = 1 /\ Cardinality(EntriesOf(key)) = 1

C9_HistoryAppendOnly ==
    /\ IsPrefix(StoredHistory(disk0), StoredHistory(disk))
    /\ Len(NewEntries) <= Len(alert_blocks)
    /\ \A j \in 1..Len(NewEntries) : NewEntries[j].alias = alert_blocks[j].purl
    /\ pc = "exited" => Len(NewEntries) = IF Completed THEN Len(alert_blocks) ELSE 0

\* A run added an entry behind the entries of an earlier run.
C9_Witness ==
    /\ pc = "exited"
    /\ StoredHistory(disk0) # <<>>
    /\ NewEntries # <<>>

C7_StateFileOldOrNew ==
    /\ disk.kind # "partial"
    /\ \/ disk = disk0
       \/ /\ pc \in {"email", "telegram", "exited"}
          /\ disk = Json(state)
    /\ \/ load_state(disk) = load_state(disk0)
       \/ load_state(disk) = state

\* A run was killed between the write and the rename: the new state is in
\* the temporary file and the state file is the old, non-empty one.
C7_Witness ==
    /\ pc = "exited" /\ exitCode = Killed
    /\ fs[TmpFile] = Json(state)
    /\ disk = disk0
    /\ disk0 # Missing
    /\ Json(state) # disk0

(***************************************************************************)
(* C8  Whatever the state file holds (nothing, no JSON, JSON that is not   *)
(* an object, an object whose "tracked" or "history" has the wrong type),  *)
(* the run after a successful fetch goes on as if the state were empty and *)
(* does not end in a fatal error.                                          *)
(***************************************************************************)
\* The file is one that load_state and the two setdefault calls turn into
\* {tracked: {...}, history: [...]}.
WellShaped(file) ==
    LET st == load_state(file)
    IN /\ st.t = "dict"
       /\ "tracked" \in DOMAIN st.d => st.d["tracked"].t = "dict"
       /\ "history" \in DOMAIN st.d => st.d["history"].t = "list"

C8_AnyStateFileReadsAsEmpty ==
    (pc = "exited" /\ fetched) =>
        /\ ~uncaught
        /\ exitCode = 0
        /\ ~WellShaped(disk0) =>
              /\ \A key \in TrackedKeys :
                    (BlocksOf(key) # {}) <=>
                        (Present(key) /\ (Truthy(Get(by_alias[key], "available")) \/ FORCE_ALERT))
              /\ DOMAIN StoredTracked(disk) = TrackedKeys \cap DOMAIN by_alias
              /\ Len(StoredHistory(disk)) = Len(alert_blocks)

(***************************************************************************)
(* C11  A run that passes the configuration checks exits with status 0,    *)
(* whatever the network, the state file (unreadable, unwritable) and the   *)
(* senders do; a run exits with another status only when it failed the     *)
(* configuration checks.                                                   *)
(***************************************************************************)
C11_ExitZeroAfterValidation ==
    (pc = "exited" /\ runs > 0) =>
        (exitCode = 0 <=> ConfigOk(TARGET_ALIASES, PINCODE))

(***************************************************************************)
(* C12  A run with no tracked alias, or with a PINCODE that is missing or  *)
(* not six digits, exits with a non-zero status without a network request, *)
(* without reading or writing the state file and without calling a sender. *)
(***************************************************************************)
C12_ConfigErrorFailsFast ==
    /\ Running => ConfigOk(TARGET_ALIASES, PINCODE)
    /\ (pc = "exited" /\ runs > 0 /\ ~ConfigOk(TARGET_ALIASES, PINCODE)) =>
          /\ exitCode = 1
          /\ attempts = NoAttempts /\ tid_session = None /\ ~fetched
          /\ reads = 0 /\ writes = 0 /\ disk = disk0
          /\ emailCalls = 0 /\ tgCalls = 0 /\ alert_blocks = <<>>

\* A run with a three-digit PINCODE ended at once, next to a state file an
\* earlier run wrote.
C12_Witness ==
    /\ pc = "exited" /\ exitCode = 1
    /\ TARGET_ALIASES # <<>> /\ PINCODE # <<>> /\ ~PincodeValid(PINCODE)
    /\ disk0 # Missing /\ disk = disk0

BootRank(p) ==
    CASE p = "init_page" -> 0
      [] p = "init_info" -> 1
      [] p \in {"pref_store", "probe_combined", "probe_alias", "pref_pin"} -> 2
      [] OTHER -> 3

C14_BootstrapForwardOnly ==
    [][(Running /\ Running') => BootRank(pc') >= BootRank(pc)]_vars

(***************************************************************************)
(* C15  No bootstrap step (warm-cookies GET, session-info GET, set-region  *)
(* PUT by store, set-region PUT by pincode) is attempted more than         *)
(* RETRIES_INIT times in a run.                                            *)
(***************************************************************************)
C15_AtMostBudgetAttempts == \A step \in Steps : attempts[step] <= RETRIES_INIT

(***************************************************************************)
(* C16  With an alias from the rules the run goes to the fetch on the fast *)
(* path only from the sanity probe, which is reached only from the store   *)
(* PUT; when the PUT or the probe fails the run goes on with the pincode   *)
(* PUT; without an alias it goes to the pincode PUT directly.  After the   *)
(* session is identified the run is given up only by the pincode PUT, on   *)
(* its last attempt.                                                       *)
(***************************************************************************)
C16_FastPathElseSlowPath ==
    [][ /\ (pc = "init_info" /\ pc' \notin {"init_info", "init_page", "exited"}) =>
              pc' = IF Truthy(alias') THEN "pref_store" ELSE "pref_pin"
        /\ (pc' = "probe_combined" /\ pc # pc') => pc = "pref_store"
        /\ (pc' = "probe_alias" /\ pc # pc') =>
              pc = "probe_combined" /\ inner = RETRIES_API
        /\ (pc' = "pref_pin" /\ pc # pc') =>
              \/ pc = "init_info" /\ ~Truthy(alias') /\ ~used_fallback'
              \/ /\ pc = "pref_store" /\ inner = RETRIES_INIT /\ outer = RETRIES_INIT
                 /\ Truthy(alias) /\ used_fallback'
              \/ /\ pc = "probe_alias" /\ inner = RETRIES_API
                 /\ Truthy(alias) /\ used_fallback'
        /\ (pc' = "fetch_combined" /\ pc # pc') =>
              \/ pc \in {"probe_combined", "probe_alias"} /\ Truthy(alias) /\ ~used_fallback
              \/ pc = "pref_pin" /\ (~Truthy(alias) \/ used_fallback)
        /\ (pc' = "exited" /\ BootRank(pc) = 2) =>
              pc = "pref_pin" /\ inner = RETRIES_INIT /\ outer = RETRIES_INIT
      ]_vars

\* The rules gave an alias, the fast path failed at the probe and the run is
\* at the pincode PUT.
C16_Witness ==
    /\ pc = "pref_pin" /\ Truthy(alias) /\ used_fallback
    /\ attempts = NoAttempts /\ tid_session # None

(***************************************************************************)
(* C17  fetch_by_aliases turns to per-alias requests only when the         *)
(* combined request failed RETRIES_API times; a combined response is the   *)
(* result as it is.  Each per-alias response is added to the bucket, a     *)
(* failed alias adds nothing, the result is the bucket when an alias       *)
(* succeeded, and the fetch fails only when every alias failed.            *)
(***************************************************************************)
C17_FallbackAggregatesSuccesses ==
    [][ /\ (pc' = "fetch_alias" /\ pc # pc') =>
              /\ pc = "fetch_combined" /\ inner = RETRIES_API
              /\ k' = 1 /\ bucket' = <<>> /\ ~any_success'
        /\ (pc = "fetch_combined" /\ pc' \notin {"fetch_combined", "fetch_alias"}) =>
              /\ pc' = "load"
              /\ \E resp \in Responses : by_alias' = ByAlias(resp)
        /\ (pc = "fetch_alias" /\ pc' = "fetch_alias") =>
              \/ k' = k /\ inner' = inner + 1 /\ bucket' = bucket
                   /\ any_success' = any_success
              \/ /\ k' = k + 1 /\ inner' = 1
                 /\ \/ bucket' = bucket /\ any_success' = any_success
                          /\ inner = RETRIES_API
                    \/ any_success' /\ \E resp \in AliasResponses :
                                           bucket' = bucket \o resp
        /\ (pc = "fetch_alias" /\ pc' = "load") =>
              /\ k = Len(TARGET_ALIASES)
              /\ \/ any_success /\ inner = RETRIES_API /\ by_alias' = ByAlias(bucket)
                 \/ \E resp \in AliasResponses : by_alias' = ByAlias(bucket \o resp)
        /\ (pc = "fetch_alias" /\ pc' = "exited") =>
              /\ k = Len(TARGET_ALIASES) /\ inner = RETRIES_API
              /\ ~any_success /\ bucket = <<>>
              /\ exitCode' = 0 /\ ~fetched'
      ]_vars

\* The first alias gave a record, the second is down to its last attempt.
C17_Witness ==
    /\ pc = "fetch_alias" /\ k = 2 /\ inner = RETRIES_API
    /\ any_success /\ bucket # <<>>

(***************************************************************************)
(* C20  A run ends.  StepsLeft is the largest number of steps (requests,   *)
(* each with at most one backoff sleep, and file, loop and sender steps)   *)
(* the run can still take; every step of a run lowers it, and it is 0     *)
(* when the run is over.                                                   *)
(***************************************************************************)
TailSteps == Len(TARGET_ALIASES) + 5

FetchSteps == RETRIES_API + Len(TARGET_ALIASES) * RETRIES_API + TailSteps

PinSteps == RETRIES_INIT * RETRIES_INIT + FetchSteps

StoreSteps == RETRIES_INIT * RETRIES_INIT + 2 * RETRIES_API + PinSteps

StepsLeft ==
    CASE pc = "init_page" ->
            (RETRIES_INIT - inner + 1) + RETRIES_INIT
            + (RETRIES_INIT - outer) * 2 * RETRIES_INIT + StoreSteps
      [] pc = "init_info" ->
            (RETRIES_INIT - inner + 1)
            + (RETRIES_INIT - outer) * 2 * RETRIES_INIT + StoreSteps
      [] pc = "pref_store" ->
            (RETRIES_INIT - inner + 1) + (RETRIES_INIT - outer) * RETRIES_INIT
            + 2 * RETRIES_API + PinSteps
      [] pc = "probe_combined" -> (RETRIES_API - inner + 1) + RETRIES_API + PinSteps
      [] pc = "probe_alias" -> (RETRIES_API - inner + 1) + PinSteps
      [] pc = "pref_pin" ->
            (RETRIES_INIT - inner + 1) + (RETRIES_INIT - outer) * RETRIES_INIT
            + FetchSteps
      [] pc = "fetch_combined" ->
            (RETRIES_API - inner + 1) + Len(TARGET_ALIASES) * RETRIES_API + TailSteps
      [] pc = "fetch_alias" ->
            (RETRIES_API - inner + 1)
            + (Len(TARGET_ALIASES) - k) * RETRIES_API + TailSteps
      [] pc = "load" -> TailSteps
      [] pc = "loop" -> (Len(TARGET_ALIASES) - i + 1) + 4
      [] pc = "save" -> 4
      [] pc = "replace" -> 3
      [] pc = "email" -> 2
      [] pc = "telegram" -> 1
      [] OTHER -> 0

C20_EveryStepLowersStepsLeft ==
    [][Running => (StepsLeft' < StepsLeft /\ StepsLeft' >= 0)]_vars

\* A run ended after every retry and every fallback of the bootstrap failed.
C20_Witness ==
    /\ pc = "exited" /\ exitCode = 0 /\ ~fetched
    /\ used_fallback /\ attempts["pin"] > RETRIES_INIT
    /\ inner = RETRIES_INIT /\ outer = RETRIES_INIT

(***************************************************************************)
(* C18  alias_from_rules returns the region of the highest-precedence rule *)
(* that matches the pincode: the exact entry, else the longest prefix the  *)
(* pincode starts with, else the first range that contains it; it returns  *)
(* null only when no rule matches.                                         *)
(***************************************************************************)
ExactMatches == call.pincode \in DOMAIN call.rules.exact

PrefixMatches ==
    { j \in 1..Len(call.rules.prefix) : StartsWith(call.pincode, call.rules.prefix[j][1]) }

RangeMatches ==
    { j \in 1..Len(call.rules.ranges) :
        /\ StrLeq(call.rules.ranges[j].start.s, call.pincode)
        /\ StrLeq(call.pincode, call.rules.ranges[j].end.s) }

\* The region a rule names, without the blanks around it.
Region(v) == IF v = None THEN None ELSE Str(Strip(v.s))

C18_HighestPrecedenceRuleWins ==
    (call.fn = "alias_from_rules" /\ call.done /\ call.pincode # <<>>) =>
        /\ ExactMatches => call.result = Region(call.rules.exact[call.pincode])
        /\ (~ExactMatches /\ PrefixMatches # {}) =>
              \E j \in PrefixMatches :
                  /\ \A h \in PrefixMatches :
                        Len(call.rules.prefix[h][1]) <= Len(call.rules.prefix[j][1])
                  /\ call.result = Region(call.rules.prefix[j][2])
        /\ (~ExactMatches /\ PrefixMatches = {} /\ RangeMatches # {}) =>
              \E j \in RangeMatches :
                  /\ \A h \in RangeMatches : j <= h
                  /\ call.result = Region(call.rules.ranges[j].alias)
        /\ call.result = None =>
              ~ExactMatches /\ PrefixMatches = {} /\ RangeMatches = {}

(***************************************************************************)
(* C19  with_retries(fn, tries) calls fn at most 'tries' times, returns    *)
(* the result of the first successful call without calling fn again, and   *)
(* raises the error of the last attempt only after exactly 'tries' failed  *)
(* calls; a backoff sleep of min(12, 2^(attempt-1)) seconds plus bounded   *)
(* jitter happens between consecutive attempts and never after the final   *)
(* failed attempt.                                                         *)
(***************************************************************************)
Calls == Len(call.outcomes)

C19_RetriesWithinBudget ==
    call.fn = "with_retries" =>
        /\ Calls <= call.tries
        /\ \A n \in 1..Calls : call.outcomes[n].ok => n = Calls
        /\ call.at = "returned" <=> (Calls > 0 /\ call.outcomes[Calls].ok)
        /\ call.at = "returned" => call.result = call.outcomes[Calls].v
        /\ call.at = "raised" =>
              /\ Calls = call.tries
              /\ \A n \in 1..Calls : ~call.outcomes[n].ok
              /\ call.last_err = call.outcomes[Calls].v
        /\ Len(call.slept) = IF call.at = "try" THEN Calls ELSE Calls - 1
        /\ \A n \in 1..Len(call.slept) :
              /\ n < call.tries
              /\ call.slept[n] >= Least(BackoffCap, BackoffBase * 2 ^ (n - 1))
              /\ call.slept[n] <= Least(BackoffCap, BackoffBase * 2 ^ (n - 1)) + JitterMax

C19_Witness ==
    /\ call.fn = "with_retries"
    /\ call.at = "raised"
    /\ call.tries = MaxTries
    /\ Len(call.slept) = MaxTries - 1
    /\ call.slept[MaxTries - 1] = BackoffCap + JitterMax

(***************************************************************************)
(* C21  An alert whose delivery failed on every channel is not retried:    *)
(* when no sender ever delivers and the previous run alerted for a key,    *)
(* a run without FORCE_ALERT that fetches the same, still available record *)
(* for the key produces no alert block and no history entry for it.        *)
(***************************************************************************)
\* The run before this one added a history entry for the key.
AlertedLast(key) ==
    /\ last.completed
    /\ key \in DOMAIN last.by_alias
    /\ \E j \in 1..Len(StoredHistory(disk0)) :
          /\ StoredHistory(disk0)[j].ts = runs - 1
          /\ NormKey(StoredHistory(disk0)[j].alias.s) = key

\* This run fetched for the key what the run before it fetched, and the
\* item is available.
StillAvailable(key) ==
    /\ Present(key)
    /\ key \in DOMAIN last.by_alias
    /\ by_alias[key] = last.by_alias[key]
    /\ Truthy(Get(by_alias[key], "available"))

C21_UndeliveredAlertNotRetried ==
    ~FORCE_ALERT =>
        \A key \in TrackedKeys :
            (AlertedLast(key) /\ StillAvailable(key)) =>
                /\ BlocksOf(key) = {}
                /\ EntriesOf(key) = {}
                /\ (Completed /\ alert_blocks = <<>>) => emailCalls = 0 /\ tgCalls = 0

\* The second run is over; the first alerted for the key and delivered on
\* no channel.
C21_Witness ==
    /\ Completed /\ ~FORCE_ALERT
    /\ \E key \in TrackedKeys : AlertedLast(key) /\ StillAvailable(key)

(***************************************************************************)
(* C22  Every signed request of main() -- the set-preference PUT by store  *)
(* or by pincode, the catalogue GET, the probe included -- is issued with  *)
(* a non-empty session seed: session-info has succeeded before it.         *)
(***************************************************************************)
\* The positions of main() whose next request carries a tid header.
SignedRequests ==
    {"pref_store", "probe_combined", "probe_alias", "pref_pin",
     "fetch_combined", "fetch_alias"}

\* self.tid_session or '' (line 177): the seed _calc_tid_header signs with.
Seed == IF Truthy(tid_session) THEN tid_session.s ELSE <<>>

C22_SignedRequestsHaveSeed == pc \in SignedRequests => Seed # <<>>

\* The fallback requests per alias are about to be signed.
C22_Witness == pc = "fetch_alias" /\ Seed # <<>>

(***************************************************************************)
(* C23  The signature is computed anew for every attempt of a signed       *)
(* request, retries and per-key fallback requests included: there are as   *)
(* many computations as requests, the header of a request is the signature *)
(* of the time the request was issued at, and a retry never carries the    *)
(* header of the attempt before it.                                        *)
(***************************************************************************)
C23_SignatureFreshPerAttempt ==
    call.fn = "signed" =>
        /\ call.calcs = call.sends
        /\ call.sends > 0 =>
              call.tid = calc_tid_header(call.issued, call.tid.rand, call.seed)
        /\ (call.at # "try" /\ call.attempt > 1) =>
              /\ call.tid # call.prev_tid
              /\ call.tid.ts > call.prev_tid.ts

\* The last retry of the last call of the sequence has been sent.
C23_Witness ==
    /\ call.fn = "signed"
    /\ call.at = "done"
    /\ call.n = MaxSigned
    /\ call.label = "api:alias"
    /\ call.attempt = RETRIES_API
    /\ call.sends > RETRIES_API

=============================================================================
